---------------------------- MODULE Spec2Model ----------------------------
(***************************************************************************)
(* Model of src/main.py: the Amadeus flight price trend finder.            *)
(*                                                                         *)
(* Three specifications share the variables:                               *)
(*   Spec          one run of main(): credentials, token, the 12-date      *)
(*                 scan, the display with its airline lookups;             *)
(*   SpecScan      search_flights_by_month() called with a valid token;    *)
(*   SpecResolver  a sequence of get_airline_name_from_api() calls.        *)
(***************************************************************************)
EXTENDS Integers, Sequences, FiniteSets

VARIABLES
    pc,                     \* position of the program
    token,                  \* value returned by get_amadeus_token ("" = None)
    tokenOk,                \* a token exchange has succeeded in this run
    max_connections,        \* MAX_CONNECTIONS of main / the scan's parameter
    current_date,           \* datetime.now() read at the start of the scan
    month_offset,           \* loop variable of search_flights_by_month
    cheapest_by_month,      \* dict month key -> offer
    overall_cheapest_offer, \* <<>> is None, <<o>> is the offer o
    fetched,                \* probe dates for which a flight-offer GET was issued
    lastOutcome,            \* outcome of the latest flight-offer GET
    returned,               \* offers returned by find_cheapest_flights so far
    airline_cache,          \* dict carrier code -> name
    lookups,                \* number of airline GETs issued
    log,                    \* calls of get_airline_name_from_api, in order
    display_index           \* position of display_cheapest_month in its loop

vars == <<pc, token, tokenOk, max_connections, current_date, month_offset,
          cheapest_by_month, overall_cheapest_offer, fetched, lastOutcome,
          returned, airline_cache, lookups, log, display_index>>

-----------------------------------------------------------------------------
(* Bounds of the model *)

\* offers find_cheapest_flights returns during one scan, over all dates; a
\* response holds at most as many offers as are left of them
MaxOffers == 2

\* calls of get_airline_name_from_api in SpecResolver
MaxCalls == 3

(* Constants of the program *)

\* range(12)
NumProbes == 12

\* datetime.timedelta(days=30 * month_offset)
StepDays == 30

-----------------------------------------------------------------------------
(* Values *)

\* a key that is missing from a dict
ABSENT == "<absent>"

\* texts the service may send as price.total
NumericTexts == {"95", "95.00", "120"}

\* float(x): err is "none" and v the number, or err is the exception raised.
\* float(None) raises TypeError, float of a non-numeric text ValueError.
Float(x) ==
    IF x = ABSENT THEN [err |-> "TypeError", v |-> 0]
    ELSE IF x \notin NumericTexts THEN [err |-> "ValueError", v |-> 0]
    ELSE IF x = "120" THEN [err |-> "none", v |-> 120]
    ELSE [err |-> "none", v |-> 95]

\* the sort key of line 204: float(x.get("price", {}).get("total", float('inf')))
PriceKey(offer) ==
    IF offer.total = ABSENT THEN [err |-> "none", inf |-> TRUE, v |-> 0]
    ELSE [err |-> Float(offer.total).err, inf |-> FALSE, v |-> Float(offer.total).v]

KeyLess(a, b) == ~a.inf /\ (b.inf \/ a.v < b.v)

\* min(offers, key=...): the first element whose key no other key is below
MinIndex(offers) ==
    CHOOSE i \in 1..Len(offers) :
        /\ \A j \in 1..Len(offers) : ~KeyLess(PriceKey(offers[j]), PriceKey(offers[i]))
        /\ \A j \in 1..(i - 1) : KeyLess(PriceKey(offers[i]), PriceKey(offers[j]))

-----------------------------------------------------------------------------
(* Dates: search_date = current_date + 30 * month_offset days *)

IsLeap(y) == (y % 4 = 0) /\ ((y % 100 # 0) \/ (y % 400 = 0))

DaysInMonth(y, m) ==
    IF m = 2 THEN (IF IsLeap(y) THEN 29 ELSE 28)
    ELSE IF m \in {4, 6, 9, 11} THEN 30 ELSE 31

RECURSIVE Normalize(_, _, _)
Normalize(y, m, d) ==
    IF d <= DaysInMonth(y, m) THEN <<y, m, d>>
    ELSE IF m = 12 THEN Normalize(y + 1, 1, d - DaysInMonth(y, m))
    ELSE Normalize(y, m + 1, d - DaysInMonth(y, m))

SearchDate(start, offset) == Normalize(start[1], start[2], start[3] + StepDays * offset)

\* strftime("%Y-%m"): the keys order as the texts do
MonthKey(date) == date[1] * 100 + date[2]

\* datetime.now() of the runs that are explored.  From 2 December 2023 the
\* probe dates cross a year's end, fall twice in January and in March 2024,
\* and skip February.
StartDates == {<<2023, 12, 2>>}

\* line 208: the month key of each probe date, for each start date
ProbeMonth ==
    [start \in StartDates |->
        [offset \in 0..(NumProbes - 1) |-> MonthKey(SearchDate(start, offset))]]


-----------------------------------------------------------------------------
(* Offers.  An offer is the record of what the program reads of it: the     *)
(* text of price.total, the number of segments of its first itinerary, and *)
(* carrierCode and carrier of its first segment.  id = <<probe date,       *)
(* position in the response>> tells apart two offers of equal content.     *)

Shape(total, segs, code, carrier) ==
    [total |-> total, segs |-> segs, carrierCode |-> code, carrier |-> carrier]

\* what the service may send for one offer during the scan
ScanShapes ==
    { Shape("95", 1, "AA", ""),
      Shape("95.00", 2, "AA", ""),
      Shape("120", 1, "AA", ""),
      Shape(ABSENT, 1, "AA", ""),
      Shape("abc", 1, "AA", "") }

\* what it may send during a whole run of main
MainShapes ==
    { Shape("95", 1, "AA", ""),
      Shape("120", 2, "BB", "Beta Air"),
      Shape("120", 0, "", "") }

MakeOffer(shape, date, pos) ==
    [id |-> <<date, pos>>, total |-> shape.total, segs |-> shape.segs,
     carrierCode |-> shape.carrierCode, carrier |-> shape.carrier]

\* the "data" lists of at most n offers the service may answer for a date
Bodies(shapes, date, n) ==
    UNION { { [i \in 1..len |-> MakeOffer(f[i], date, i)] : f \in [1..len -> shapes] }
            : len \in 0..n }

-----------------------------------------------------------------------------
(* find_cheapest_flights *)

Connections(offer) == offer.segs - 1

FilterOffers_NoFilter(offers, maxc) == offers

\* lines 156-163: keep the offers with connections <= max_connections
FilterOffers(offers, maxc) ==
    SelectSeq(offers, LAMBDA o : Connections(o) <= maxc)

FindCheapestFlights_Raises(outcome, body, maxc) ==
    IF outcome = "error" THEN [raised |-> TRUE, offers |-> <<>>]
    ELSE [raised |-> FALSE, offers |-> FilterOffers(body, maxc)]

\* lines 148-172: one GET; a RequestException (transport error or non-2xx
\* status) is caught and gives [], otherwise the filtered "data" list
FindCheapestFlights(outcome, body, maxc) ==
    IF outcome = "error" THEN [raised |-> FALSE, offers |-> <<>>]
    ELSE [raised |-> FALSE, offers |-> FilterOffers(body, maxc)]

-----------------------------------------------------------------------------
(* search_flights_by_month: the body of the loop *)

Put(dict, key, value) ==
    [k \in (DOMAIN dict) \cup {key} |-> IF k = key THEN value ELSE dict[k]]

EmptyDict == [k \in {} |-> 0]

PriceOf(offer) == Float(offer.total).v

UpdateOverall_LastWins(overall, offer, price) ==
    IF overall = <<>> \/ price <= PriceOf(overall[1]) THEN <<offer>> ELSE overall

UpdateOverall_FirstOnly(overall, offer, price) ==
    IF overall = <<>> THEN <<offer>> ELSE overall

\* lines 211-212
UpdateOverall(overall, offer, price) ==
    IF overall = <<>> \/ price < PriceOf(overall[1]) THEN <<offer>> ELSE overall

UpdateMonth_Always(dict, month_key, offer, price) == Put(dict, month_key, offer)

\* lines 215-216
UpdateMonth(dict, month_key, offer, price) ==
    IF month_key \notin DOMAIN dict \/ price < PriceOf(dict[month_key])
    THEN Put(dict, month_key, offer) ELSE dict

\* lines 202-219 for the offers of one date.  min() is outside the try: a
\* key that raises leaves the function with the exception.  Inside the try
\* float(None) raises TypeError, which is caught, and the loop continues.
ScanIteration(dict, overall, offers, month_key) ==
    IF offers = <<>> THEN [raised |-> FALSE, dict |-> dict, overall |-> overall]
    ELSE IF \E i \in 1..Len(offers) : PriceKey(offers[i]).err # "none"
    THEN [raised |-> TRUE, dict |-> dict, overall |-> overall]
    ELSE LET cheapest_offer == offers[MinIndex(offers)]
             price == Float(cheapest_offer.total)
         IN  IF price.err # "none"
             THEN [raised |-> FALSE, dict |-> dict, overall |-> overall]
             ELSE [raised |-> FALSE,
                   dict |-> UpdateMonth(dict, month_key, cheapest_offer, price.v),
                   overall |-> UpdateOverall(overall, cheapest_offer, price.v)]

\* where the program goes when the scan returns: main goes on to the display
AfterScan(caller) == IF caller = "main" THEN "display" ELSE "returned"

\* One iteration of the loop of lines 195-219, with the call of
\* find_cheapest_flights it makes.
ScanStep(shapes, caller) ==
    /\ pc = "scan"
    /\ month_offset < NumProbes
    /\ \E outcome \in {"error", "ok"} :
       \E body \in Bodies(shapes, month_offset, MaxOffers - Len(returned)) :
         /\ outcome = "error" => body = <<>>
         /\ LET found == FindCheapestFlights(outcome, body, max_connections)
                month_key == ProbeMonth[current_date][month_offset]
                it == ScanIteration(cheapest_by_month, overall_cheapest_offer,
                                    found.offers, month_key)
            IN  /\ fetched' = Append(fetched, month_offset)
                /\ lastOutcome' = outcome
                /\ IF found.raised
                   THEN /\ pc' = "raised"
                        /\ UNCHANGED <<returned, cheapest_by_month,
                                       overall_cheapest_offer, month_offset>>
                   ELSE /\ returned' = returned \o found.offers
                        /\ cheapest_by_month' = it.dict
                        /\ overall_cheapest_offer' = it.overall
                        /\ IF it.raised
                           THEN pc' = "raised" /\ month_offset' = month_offset
                           ELSE /\ month_offset' = month_offset + 1
                                /\ pc' = "scan"
    /\ UNCHANGED <<token, tokenOk, max_connections, current_date,
                   airline_cache, lookups, log, display_index>>

\* line 221: the loop is over, the function returns
ScanReturn(caller) ==
    /\ pc = "scan"
    /\ month_offset = NumProbes
    /\ pc' = AfterScan(caller)
    /\ UNCHANGED <<token, tokenOk, max_connections, current_date, month_offset,
                   cheapest_by_month, overall_cheapest_offer, fetched,
                   lastOutcome, returned, airline_cache, lookups, log,
                   display_index>>

ScanStepAlone == ScanStep(ScanShapes, "scan")

ScanReturnAlone == ScanReturn("scan")

\* search_flights_by_month(token, origin, destination, max_connections)
\* called with a token and a fresh airline cache
InitScan ==
    /\ pc = "scan"
    /\ token = "tok"
    /\ tokenOk = TRUE
    /\ max_connections \in {0, 1}
    /\ current_date \in StartDates
    /\ month_offset = 0
    /\ cheapest_by_month = EmptyDict
    /\ overall_cheapest_offer = <<>>
    /\ fetched = <<>>
    /\ lastOutcome = "none"
    /\ returned = <<>>
    /\ airline_cache = EmptyDict
    /\ lookups = 0
    /\ log = <<>>
    /\ display_index = 0

NextScan == ScanStepAlone \/ ScanReturnAlone

SpecScan == InitScan /\ [][NextScan]_vars

-----------------------------------------------------------------------------
(* get_airline_name_from_api and get_airline_name *)

Truthy(text) == text # ABSENT /\ text # ""

\* an answer of the airline service: a RequestException ("error"), a 200
\* whose "data" is empty ("notfound"), or a 200 with an airline record
Reply(kind, businessName, commonName) ==
    [kind |-> kind, businessName |-> businessName, commonName |-> commonName]

Replies ==
    { Reply("error", ABSENT, ABSENT), Reply("notfound", ABSENT, ABSENT) }
    \cup { Reply("found", b, c) : b \in {ABSENT, "Alpha Airlines"},
                                  c \in {ABSENT, "", "Alpha"} }

\* carrier codes passed to the resolver
Codes == {"", "AA", "BB"}

\* line 42: airline.get("businessName") or airline.get("commonName", carrier_code)
AirlineName(reply, carrier_code) ==
    IF Truthy(reply.businessName) THEN reply.businessName
    ELSE IF reply.commonName = ABSENT THEN carrier_code
    ELSE reply.commonName

Resolved(name, cache, requested) ==
    [name |-> name, cache |-> cache, requested |-> requested]

GetAirlineNameFromApi_CacheOnError(cache, carrier_code, reply) ==
    IF carrier_code = "" \/ carrier_code \in DOMAIN cache
    THEN Resolved(IF carrier_code \in DOMAIN cache THEN cache[carrier_code]
                  ELSE carrier_code, cache, FALSE)
    ELSE IF reply.kind = "found"
    THEN Resolved(AirlineName(reply, carrier_code),
                  Put(cache, carrier_code, AirlineName(reply, carrier_code)), TRUE)
    ELSE Resolved(carrier_code, Put(cache, carrier_code, carrier_code), TRUE)

GetAirlineNameFromApi_ForgetFound(cache, carrier_code, reply) ==
    IF carrier_code = "" \/ carrier_code \in DOMAIN cache
    THEN Resolved(IF carrier_code \in DOMAIN cache THEN cache[carrier_code]
                  ELSE carrier_code, cache, FALSE)
    ELSE IF reply.kind = "error" THEN Resolved(carrier_code, cache, TRUE)
    ELSE IF reply.kind = "found"
    THEN Resolved(AirlineName(reply, carrier_code), cache, TRUE)
    ELSE Resolved(carrier_code, Put(cache, carrier_code, carrier_code), TRUE)

GetAirlineNameFromApi_NoCacheCheck(cache, carrier_code, reply) ==
    IF carrier_code = "" THEN Resolved(carrier_code, cache, FALSE)
    ELSE IF reply.kind = "error" THEN Resolved(carrier_code, cache, TRUE)
    ELSE IF reply.kind = "found"
    THEN Resolved(AirlineName(reply, carrier_code),
                  Put(cache, carrier_code, AirlineName(reply, carrier_code)), TRUE)
    ELSE Resolved(carrier_code, Put(cache, carrier_code, carrier_code), TRUE)

\* lines 23-53: the name returned, the cache afterwards, and whether a GET
\* was issued.  Only the found and the not-found answer write the cache; the
\* except branch returns the code and leaves the cache alone.
GetAirlineNameFromApi(cache, carrier_code, reply) ==
    IF carrier_code = "" \/ carrier_code \in DOMAIN cache
    THEN Resolved(IF carrier_code \in DOMAIN cache THEN cache[carrier_code]
                  ELSE carrier_code, cache, FALSE)
    ELSE IF reply.kind = "error" THEN Resolved(carrier_code, cache, TRUE)
    ELSE IF reply.kind = "found"
    THEN Resolved(AirlineName(reply, carrier_code),
                  Put(cache, carrier_code, AirlineName(reply, carrier_code)), TRUE)
    ELSE Resolved(carrier_code, Put(cache, carrier_code, carrier_code), TRUE)

\* the entry of log for one call
LogEntry(cache, carrier_code, reply, result) ==
    [code |-> carrier_code,
     cached |-> carrier_code \in DOMAIN cache,
     kind |-> IF result.requested THEN reply.kind ELSE "none",
     requested |-> result.requested,
     name |-> result.name]

\* lines 66-81: get_airline_name(segment, token) for the first segment of an
\* offer; called is whether get_airline_name_from_api was called
GetAirlineName(offer, tok, cache, reply) ==
    IF offer.carrierCode = ""
    THEN [called |-> FALSE, result |-> Resolved("Unknown", cache, FALSE)]
    ELSE IF offer.carrier # "" /\ offer.carrier # offer.carrierCode
    THEN [called |-> FALSE, result |-> Resolved(offer.carrier, cache, FALSE)]
    ELSE IF tok # ""
    THEN [called |-> TRUE,
          result |-> GetAirlineNameFromApi(cache, offer.carrierCode, reply)]
    ELSE [called |-> FALSE, result |-> Resolved(offer.carrierCode, cache, FALSE)]

\* one call of get_airline_name_from_api(token, carrier_code)
ResolveCall ==
    /\ pc = "resolver"
    /\ Len(log) < MaxCalls
    /\ \E carrier_code \in Codes : \E reply \in Replies :
         LET result == GetAirlineNameFromApi(airline_cache, carrier_code, reply)
         IN  /\ airline_cache' = result.cache
             /\ lookups' = lookups + (IF result.requested THEN 1 ELSE 0)
             /\ log' = Append(log, LogEntry(airline_cache, carrier_code, reply, result))
    /\ UNCHANGED <<pc, token, tokenOk, max_connections, current_date,
                   month_offset, cheapest_by_month, overall_cheapest_offer,
                   fetched, lastOutcome, returned, display_index>>

\* the module has been loaded (line 91: airline_cache = {}) and a token is held
InitResolver ==
    /\ pc = "resolver"
    /\ token = "tok"
    /\ tokenOk = TRUE
    /\ max_connections = 0
    /\ current_date \in StartDates
    /\ month_offset = 0
    /\ cheapest_by_month = EmptyDict
    /\ overall_cheapest_offer = <<>>
    /\ fetched = <<>>
    /\ lastOutcome = "none"
    /\ returned = <<>>
    /\ airline_cache = EmptyDict
    /\ lookups = 0
    /\ log = <<>>
    /\ display_index = 0

NextResolver == ResolveCall

SpecResolver == InitResolver /\ [][NextResolver]_vars

-----------------------------------------------------------------------------
(* display_cheapest_month *)

\* sorted(cheapest_by_month.keys())[i], i counted from 0
SortedMonth(dict, i) ==
    CHOOSE m \in DOMAIN dict : Cardinality({k \in DOMAIN dict : k < m}) = i

\* lines 245-257 and 266-275: the airline of an offer is asked for only when
\* the offer has segments.  The departure times the service sends are taken
\* to be well formed, so that strptime (line 249) does not raise.
DisplayOffer(offer) ==
    \E reply \in Replies :
        LET got == GetAirlineName(offer, token, airline_cache, reply)
        IN  IF offer.segs > 0 /\ got.called
            THEN /\ airline_cache' = got.result.cache
                 /\ lookups' = lookups + (IF got.result.requested THEN 1 ELSE 0)
                 /\ log' = Append(log, LogEntry(airline_cache, offer.carrierCode,
                                               reply, got.result))
            ELSE UNCHANGED <<airline_cache, lookups, log>>

\* lines 233-235: nothing was found, the function returns at once
DisplayNothing ==
    /\ pc = "display"
    /\ DOMAIN cheapest_by_month = {}
    /\ pc' = "done"
    /\ UNCHANGED <<token, tokenOk, max_connections, current_date, month_offset,
                   cheapest_by_month, overall_cheapest_offer, fetched,
                   lastOutcome, returned, airline_cache, lookups, log,
                   display_index>>

\* lines 240-259: one month of the loop over the sorted months
DisplayMonth ==
    /\ pc = "display"
    /\ display_index < Cardinality(DOMAIN cheapest_by_month)
    /\ DisplayOffer(cheapest_by_month[SortedMonth(cheapest_by_month, display_index)])
    /\ display_index' = display_index + 1
    /\ UNCHANGED <<pc, token, tokenOk, max_connections, current_date,
                   month_offset, cheapest_by_month, overall_cheapest_offer,
                   fetched, lastOutcome, returned>>

\* lines 261-302: the overall cheapest offer, then the function returns
DisplayOverall ==
    /\ pc = "display"
    /\ DOMAIN cheapest_by_month # {}
    /\ display_index = Cardinality(DOMAIN cheapest_by_month)
    /\ IF overall_cheapest_offer # <<>>
       THEN DisplayOffer(overall_cheapest_offer[1])
       ELSE UNCHANGED <<airline_cache, lookups, log>>
    /\ pc' = "done"
    /\ UNCHANGED <<token, tokenOk, max_connections, current_date, month_offset,
                   cheapest_by_month, overall_cheapest_offer, fetched,
                   lastOutcome, returned, display_index>>

-----------------------------------------------------------------------------
(* main and get_amadeus_token *)

\* lines 310-314: with a placeholder as id or secret main returns at once
CheckCredentials ==
    /\ pc = "start"
    /\ \E placeholders \in BOOLEAN :
           pc' = IF placeholders THEN "exit_no_credentials" ELSE "config"
    /\ UNCHANGED <<token, tokenOk, max_connections, current_date, month_offset,
                   cheapest_by_month, overall_cheapest_offer, fetched,
                   lastOutcome, returned, airline_cache, lookups, log,
                   display_index>>

\* line 320: int(os.environ.get("max_connections")); int(None) raises
ReadConfig ==
    /\ pc = "config"
    /\ \E setting \in {"unset", "0", "1"} :
           IF setting = "unset"
           THEN pc' = "raised" /\ UNCHANGED max_connections
           ELSE /\ pc' = "token"
                /\ max_connections' = (IF setting = "0" THEN 0 ELSE 1)
    /\ UNCHANGED <<token, tokenOk, current_date, month_offset,
                   cheapest_by_month, overall_cheapest_offer, fetched,
                   lastOutcome, returned, airline_cache, lookups, log,
                   display_index>>

\* lines 108-117: the access_token of the answer, or None (here "") after a
\* RequestException or when the answer has no access_token
TokenOf(outcome) == IF outcome = "ok" THEN "tok" ELSE ""

MainAfterToken_NoCheck(tok) == "scan"

\* lines 323-327: without a token main returns, with one it starts the scan
MainAfterToken(tok) == IF tok = "" THEN "exit_no_token" ELSE "scan"

\* lines 322-325: the token exchange and the test of its result
GetToken ==
    /\ pc = "token"
    /\ \E outcome \in {"error", "ok_without_token", "ok"} :
           /\ token' = TokenOf(outcome)
           /\ tokenOk' = (outcome # "error")
           /\ pc' = MainAfterToken(TokenOf(outcome))
    /\ UNCHANGED <<max_connections, current_date, month_offset,
                   cheapest_by_month, overall_cheapest_offer, fetched,
                   lastOutcome, returned, airline_cache, lookups, log,
                   display_index>>

ScanStepMain == ScanStep(MainShapes, "main")

ScanReturnMain == ScanReturn("main")

\* the module has been loaded and main() is called
Init ==
    /\ pc = "start"
    /\ token = ""
    /\ tokenOk = FALSE
    /\ max_connections = 0
    /\ current_date \in StartDates
    /\ month_offset = 0
    /\ cheapest_by_month = EmptyDict
    /\ overall_cheapest_offer = <<>>
    /\ fetched = <<>>
    /\ lastOutcome = "none"
    /\ returned = <<>>
    /\ airline_cache = EmptyDict
    /\ lookups = 0
    /\ log = <<>>
    /\ display_index = 0

Next ==
    \/ CheckCredentials
    \/ ReadConfig
    \/ GetToken
    \/ ScanStepMain
    \/ ScanReturnMain
    \/ DisplayNothing
    \/ DisplayMonth
    \/ DisplayOverall

Spec == Init /\ [][Next]_vars

-----------------------------------------------------------------------------
(* Properties of the scan *)

Priced(offer) == Float(offer.total).err = "none"

MonthOf(offer) == ProbeMonth[current_date][offer.id[1]]

Positions == 1..Len(returned)

\* the positions in returned of the priced offers of month m
PricedIn(m) == {i \in Positions : Priced(returned[i]) /\ MonthOf(returned[i]) = m}

PricedAll == {i \in Positions : Priced(returned[i])}

\* the first position of S whose offer has the lowest price of S
FirstMinimum(S) ==
    CHOOSE i \in S :
        /\ \A j \in S : PriceOf(returned[i]) <= PriceOf(returned[j])
        /\ \A j \in S : j < i => PriceOf(returned[i]) < PriceOf(returned[j])

\* C1: after every iteration of the scan, the offer stored for a month key
\* costs no more than any priced offer returned so far for a probe date of
\* that month, and costs what one of them costs.
C1_IncrementalMinimum ==
    pc # "raised" =>
        \A m \in DOMAIN cheapest_by_month :
            /\ \A i \in PricedIn(m) :
                   PriceOf(cheapest_by_month[m]) <= PriceOf(returned[i])
            /\ \E i \in PricedIn(m) :
                   PriceOf(cheapest_by_month[m]) = PriceOf(returned[i])

\* a month with two probe dates, the second of which brought the lower price
C1_Witness ==
    /\ pc = "scan"
    /\ \E m \in DOMAIN cheapest_by_month : \E i \in PricedIn(m) :
           /\ returned[i].id[1] < cheapest_by_month[m].id[1]
           /\ PriceOf(cheapest_by_month[m]) < PriceOf(returned[i])

\* C2 (as claimed): an offer whose price is missing or not a number never
\* aborts the scan.
C2_MalformedRecordSkipped ==
    (\E i \in Positions : ~Priced(returned[i])) => pc # "raised"

\* C5: every offer find_cheapest_flights returned, and every offer stored
\* per month or as the overall cheapest, has at most max_connections
\* connections.
C5_ConnectionsWithinMaximum ==
    /\ \A i \in Positions : Connections(returned[i]) <= max_connections
    /\ \A m \in DOMAIN cheapest_by_month :
           Connections(cheapest_by_month[m]) <= max_connections
    /\ \A i \in 1..Len(overall_cheapest_offer) :
           Connections(overall_cheapest_offer[i]) <= max_connections

\* the second offer of a response was returned and stored, the first was not
\* returned: the filter dropped it
C5_Witness ==
    /\ max_connections = 0
    /\ \E m \in DOMAIN cheapest_by_month :
           /\ cheapest_by_month[m].id[2] = 2
           /\ \A i \in Positions : returned[i].id[1] = cheapest_by_month[m].id[1]
                                   => returned[i].id[2] # 1

\* C7: the holder of a month, and the overall holder, is the first offer in
\* encounter order among those of lowest price: only a strictly lower price
\* replaces a holder.
C7_FirstMinimumWins ==
    pc # "raised" =>
        /\ IF PricedAll = {} THEN overall_cheapest_offer = <<>>
           ELSE overall_cheapest_offer = <<returned[FirstMinimum(PricedAll)]>>
        /\ \A m \in DOMAIN cheapest_by_month :
               /\ PricedIn(m) # {}
               /\ cheapest_by_month[m] = returned[FirstMinimum(PricedIn(m))]

\* the scan has returned; an offer of the same price, written differently,
\* came after the overall cheapest
C7_Witness ==
    /\ pc = "returned"
    /\ overall_cheapest_offer # <<>>
    /\ \E j, k \in Positions :
           /\ j < k
           /\ returned[j] = overall_cheapest_offer[1]
           /\ Priced(returned[k])
           /\ PriceOf(returned[k]) = PriceOf(returned[j])
           /\ returned[k].total # returned[j].total

C10_OverallAmongMonthly ==
    /\ (overall_cheapest_offer = <<>>) <=> (DOMAIN cheapest_by_month = {})
    /\ overall_cheapest_offer # <<>> =>
           /\ \E m \in DOMAIN cheapest_by_month :
                  cheapest_by_month[m] = overall_cheapest_offer[1]
           /\ \A m \in DOMAIN cheapest_by_month :
                  PriceOf(overall_cheapest_offer[1]) <= PriceOf(cheapest_by_month[m])

\* two months hold an offer and the later month holds the overall cheapest
C10_Witness ==
    /\ overall_cheapest_offer # <<>>
    /\ \E m1, m2 \in DOMAIN cheapest_by_month :
           /\ m1 < m2
           /\ cheapest_by_month[m2] = overall_cheapest_offer[1]
           /\ PriceOf(cheapest_by_month[m2]) < PriceOf(cheapest_by_month[m1])

-----------------------------------------------------------------------------
(* Properties of the airline resolver *)

Calls == 1..Len(log)

\* the call left an entry for its code in the cache
LeftCached(entry) == entry.cached \/ entry.kind \in {"found", "notfound"}

C9_CacheNeverInvalidated ==
    /\ \A i \in Calls :
           (log[i].code # "" /\ LeftCached(log[i])) =>
               /\ log[i].code \in DOMAIN airline_cache
               /\ airline_cache[log[i].code] = log[i].name
               /\ \A j \in Calls :
                      (i < j /\ log[j].code = log[i].code) =>
                          /\ ~log[j].requested
                          /\ log[j].name = log[i].name
    /\ lookups = Cardinality({i \in Calls : log[i].requested})
    /\ \A c \in DOMAIN airline_cache :
           \E i \in Calls : log[i].code = c /\ log[i].requested

\* a name was found and cached, another code was looked up, and a later call
\* for the first code returned the cached name
C9_Witness ==
    /\ Len(log) = 3
    /\ log[1].kind = "found" /\ log[1].name = "Alpha"
    /\ log[2].code # log[1].code /\ log[2].requested
    /\ log[3].code = log[1].code /\ ~log[3].requested /\ log[3].name = "Alpha"

-----------------------------------------------------------------------------
(* Properties of main *)

\* C6: no flight-offer request and no airline lookup is issued unless the
\* token exchange has succeeded and given a token; a run that ends for want
\* of credentials or of a token has issued none.
C6_NoSearchWithoutToken ==
    /\ (fetched # <<>> \/ lookups > 0 \/ log # <<>>) => (tokenOk /\ token # "")
    /\ pc \in {"exit_no_credentials", "exit_no_token"} =>
           (token = "" /\ fetched = <<>> /\ lookups = 0)
    /\ token = "" => pc \in {"start", "config", "token", "raised",
                             "exit_no_credentials", "exit_no_token"}

\* a run with a token has fetched the 12 dates and looked an airline up
C6_Witness ==
    /\ pc = "done"
    /\ tokenOk
    /\ Len(fetched) = NumProbes
    /\ lookups > 0

=============================================================================
